---- MODULE Spec2Model ----
(***************************************************************************)
(* Verification model of the committee orchestration core of               *)
(* AI-Analyst-for-Startup-Evaluation.                                      *)
(*                                                                         *)
(*   Spec         CommitteeCoordinator.analyze_pitch                       *)
(*                (backend/app/services/committee_coordinator.py)          *)
(*   SpecSession  evaluate_pitch / run_analysis                            *)
(*                (backend/app/routers/analysis.py)                        *)
(*   SpecWS       ConnectionManager                                        *)
(*                (backend/app/services/websocket_manager.py)              *)
(*   SpecVerdict  CommitteeCoordinator._generate_verdict and the           *)
(*                final_verdict block, on given agent results              *)
(*   SpecSim      simulate_investment_committee                            *)
(*   SpecAgent    the analyst agents' analyze and                          *)
(*                ADKAgentManager.process_message, on given LLM behaviour  *)
(*                (backend/app/services/agents)                            *)
(*   SpecLLM      call_llm and its rate limiter, called by two analyses    *)
(*                (backend/app/services/llm_client.py)                     *)
(*   SpecExtract  extract_analysis_from_text, on given texts and roles     *)
(*                (backend/app/routers/deal_analysis.py)                   *)
(*   SpecDebate   run_next_round, one call at a time                       *)
(*   SpecDebateOverlap   run_next_round, calls overlapping                 *)
(*                (backend/app/services/orchestrator.py)                   *)
(*   SpecAnalysis AnalysisService.analyze_startup / _perform_analysis      *)
(*                (backend/app/services/analysis_service.py)               *)
(*                                                                         *)
(* Numbers that are floats in the source (confidences, scores) are kept    *)
(* as integer percentages: 0.7 is 70.  A text is a sequence of word        *)
(* tokens; the substring tests of the source are tests on the tokens.      *)
(***************************************************************************)
EXTENDS Integers, Sequences, FiniteSets, TLC

VARIABLES
    \* ---- CommitteeCoordinator.analyze_pitch ----
    ap_pc,              \* position of the one analyze_pitch call
    task_state,         \* per agent: state of its asyncio task
    response,           \* per agent: the AgentResponse its task returned
    idx,                \* index of the fan-in loop over tasks
    agent_results,      \* dict agent_results, in insertion order
    committee_verdict,  \* result of _run_committee_deliberation
    final_verdict,      \* the final_verdict dict built in step 6.5
    ret,                \* the dict analyze_pitch returned
    \* ---- routers/analysis.py ----
    analysis_results,   \* module dict analysis_results: id -> stored status
    analysis_callbacks, \* module dict analysis_callbacks: id -> has callback url
    bg,                 \* per id: state of the background task run_analysis
    emitted,            \* per id: progress values run_analysis handed to send_progress_update
    \* ---- ConnectionManager ----
    active_connections, \* dict analysis_id -> set of websockets
    lock,               \* asyncio.Lock of the manager
    ws_state,           \* per websocket: lifecycle of the endpoint coroutine
    ws_analysis,        \* per websocket: the analysis_id of its URL
    pending_disc,       \* deferred _disconnect tasks created and not yet run
    pub_pc,             \* position of the one send_progress_update call
    pub_id,             \* its analysis_id argument
    pub_count,          \* send_progress_update calls made so far
    send_tasks,         \* websockets whose send_json coroutine is in send_tasks
    send_state,         \* per websocket in send_tasks: state of its send_json
    pub_outcome,        \* how the last send_progress_update call ended
    disc_at_begin,      \* websockets whose disconnect() had been called when the publish began
    gone_at_begin,      \* websockets whose _disconnect task had run when the publish began
    \* ---- simulate_investment_committee ----
    sim_pc,             \* position of the one simulate_investment_committee call
    sim_idx,            \* index of the loop over committee_tasks
    committee_members,  \* list committee_members
    sim_ret,            \* how the call ended: the response, or HTTP 500
    \* ---- _generate_verdict on given agent_results ----
    gv_pc,              \* "input" before the call, "done" after it
    gv_results,         \* the agent_results argument, in insertion order
    gv_verdict,         \* the dict _generate_verdict returned
    gv_final,           \* the final_verdict dict built from it
    gv_new,             \* what committee_coordinator_new._generate_verdict returned for it
    \* ---- analyst agents (services/agents) ----
    ag_pc,              \* "input" before analyze is called, "done" after it
    ag_agent,           \* which analyst's analyze is called
    ag_llm,             \* what call_llm does for this call
    ag_file,            \* the 'file' entry of input_data
    ag_resp,            \* the AgentResponse analyze returned
    \* ---- ADKAgentManager.process_message ----
    pm_pc,              \* "input" before the call, "done" after it
    pm_found,           \* whether get_agent finds the agent
    pm_model,           \* what the agent's model does for this call
    pm_resp,            \* the AgentResponse process_message returned
    \* ---- llm_client.call_llm ----
    now,                \* time.time(), in seconds
    last_call_time,     \* module global last_call_time
    llm_pc,             \* per analysis: position of its call_llm call
    llm_call_time,      \* per analysis: current_time read at the start of the call
    llm_wait,           \* per analysis: wait_time the call computed (0: no sleep)
    llm_invoke_time,    \* per analysis: when its Gemini invocation started
    \* ---- extract_analysis_from_text ----
    ex_pc,              \* "input" before the call, "done" after it
    ex_text,            \* the text argument
    ex_role,            \* the role argument
    ex_ret,             \* the dict the function returned
    \* ---- orchestrator.run_next_round ----
    d_db,               \* the stored DebateSession document
    d_time,             \* datetime.utcnow(), as a counter
    d_calls,            \* run_next_round calls started so far
    d_pc,               \* per caller: position of its run_next_round call
    d_session,          \* per caller: its local `session` object
    d_idx,              \* per caller: its local `idx`
    d_reply,            \* per caller: its local `reply`
    \* ---- AnalysisService ----
    as_db,              \* per record id: the analysis_history document
    as_pc,              \* per record id: position of analyze_startup / _perform_analysis
    as_url,             \* per record id: whether website_url was given
    as_analysis         \* per record id: the local dict `analysis` of _perform_analysis

pitch_vars == <<ap_pc, task_state, response, idx, agent_results,
                committee_verdict, final_verdict, ret>>
session_vars == <<analysis_results, analysis_callbacks, bg, emitted>>
ws_vars == <<active_connections, lock, ws_state, ws_analysis, pending_disc,
             pub_pc, pub_id, pub_count, send_tasks, send_state, pub_outcome,
             disc_at_begin, gone_at_begin>>
sim_vars == <<sim_pc, sim_idx, committee_members, sim_ret>>
gv_vars == <<gv_pc, gv_results, gv_verdict, gv_final, gv_new>>
agent_vars == <<ag_pc, ag_agent, ag_llm, ag_file, ag_resp,
                pm_pc, pm_found, pm_model, pm_resp>>
llm_vars == <<now, last_call_time, llm_pc, llm_call_time, llm_wait, llm_invoke_time>>
ex_vars == <<ex_pc, ex_text, ex_role, ex_ret>>
debate_vars == <<d_db, d_time, d_calls, d_pc, d_session, d_idx, d_reply>>
as_vars == <<as_db, as_pc, as_url, as_analysis>>
vars == <<pitch_vars, session_vars, ws_vars, sim_vars, gv_vars, agent_vars, llm_vars,
          ex_vars, debate_vars, as_vars>>

\* What the steps of one component leave alone
not_pitch == <<session_vars, ws_vars, sim_vars, gv_vars, agent_vars, llm_vars,
    ex_vars, debate_vars, as_vars>>
not_session == <<pitch_vars, ws_vars, sim_vars, gv_vars, agent_vars, llm_vars,
    ex_vars, debate_vars, as_vars>>
not_ws == <<pitch_vars, session_vars, sim_vars, gv_vars, agent_vars, llm_vars,
    ex_vars, debate_vars, as_vars>>
not_sim == <<pitch_vars, session_vars, ws_vars, gv_vars, agent_vars, llm_vars,
    ex_vars, debate_vars, as_vars>>
not_gv == <<pitch_vars, session_vars, ws_vars, sim_vars, agent_vars, llm_vars,
    ex_vars, debate_vars, as_vars>>
not_agent == <<pitch_vars, session_vars, ws_vars, sim_vars, gv_vars, llm_vars,
    ex_vars, debate_vars, as_vars>>
not_llm == <<pitch_vars, session_vars, ws_vars, sim_vars, gv_vars, agent_vars,
    ex_vars, debate_vars, as_vars>>
not_ex == <<pitch_vars, session_vars, ws_vars, sim_vars, gv_vars, agent_vars, llm_vars,
    debate_vars, as_vars>>
not_debate == <<pitch_vars, session_vars, ws_vars, sim_vars, gv_vars, agent_vars, llm_vars,
    ex_vars, as_vars>>
not_as == <<pitch_vars, session_vars, ws_vars, sim_vars, gv_vars, agent_vars, llm_vars,
    ex_vars, debate_vars>>

----------------------------------------------------------------------------
(* Texts and AgentResponse                                                 *)

\* Sample LLM outputs: empty, one keyword, two keywords, no keyword.
Texts ==
    { <<>>, <<"Invest">>, <<"pass">>, <<"hold">>, <<"ok">>,
      <<"pass", "Invest">>, <<"hold", "pass">> }

\* str.lower() on one token
Lower(w) == IF w = "Invest" THEN "invest" ELSE w

\* `kw in content.lower()`
Contains(text, kw) == \E i \in DOMAIN text : Lower(text[i]) = kw

\* A value that is a str or None.
NoneC == [none |-> TRUE, text |-> <<>>]
StrC(t) == [none |-> FALSE, text |-> t]

\* Python truthiness of a str-or-None value
Truthy(c) == ~c.none /\ Len(c.text) > 0

\* The content of a failure response: the error message, never empty.
ErrorText == <<"Error", "processing", "message">>

\* AgentResponse(success=True, content=response_content, ...)
OkResponse(t) == [success |-> TRUE, content |-> StrC(t), error |-> "None"]

\* AgentResponse(success=False, content=error_msg, error=str(e), ...)
FailResponse == [success |-> FALSE, content |-> StrC(ErrorText), error |-> "error"]

NoResponse == [success |-> FALSE, content |-> NoneC, error |-> "None"]

\* self.agents of CommitteeCoordinator, in insertion order
Agents == <<"financial_analyst", "market_analyst", "technical_analyst">>

AgentSet == {Agents[i] : i \in DOMAIN Agents}

Range(s) == {s[i] : i \in DOMAIN s}

----------------------------------------------------------------------------
(* CommitteeCoordinator: the pure parts                                    *)

NoVote == [decision |-> "none", confidence |-> 0]

\* Confidence _parse_vote gives a vote parsed from a string (0.7)
StringVoteConfidence == 70

\* _parse_vote: content is the str of an AgentResponse or None.  The first
\* keyword found, in the order invest, pass, hold, decides; a string with
\* no keyword falls through the dict test and yields None.
ParseVote(content) ==
    IF ~Truthy(content) THEN NoVote
    ELSE IF Contains(content.text, "invest")
         THEN [decision |-> "INVEST", confidence |-> StringVoteConfidence]
    ELSE IF Contains(content.text, "pass")
         THEN [decision |-> "PASS", confidence |-> StringVoteConfidence]
    ELSE IF Contains(content.text, "hold")
         THEN [decision |-> "HOLD", confidence |-> StringVoteConfidence]
    ELSE NoVote

\* The votes list of _run_committee_deliberation, in the order of agent_results
RECURSIVE VotesOf(_)
VotesOf(results) ==
    IF results = <<>> THEN <<>>
    ELSE LET r == Head(results)
             v == ParseVote(r.content)
         IN  (IF r.success /\ Truthy(r.content) /\ v.decision # "none"
              THEN << [member |-> r.name, vote |-> v.decision,
                       confidence |-> v.confidence] >>
              ELSE <<>>) \o VotesOf(Tail(results))

\* vote_counts[d]
CountOf(votes, d) == Cardinality({i \in DOMAIN votes : votes[i].vote = d})

\* The keys of the dict vote_counts in insertion order: each decision at
\* its first vote.
RECURSIVE VoteKeys(_)
VoteKeys(votes) ==
    IF votes = <<>> THEN <<>>
    ELSE LET init == VoteKeys(SubSeq(votes, 1, Len(votes) - 1))
             d == votes[Len(votes)].vote
         IN  IF d \in Range(init) THEN init ELSE Append(init, d)

\* vote_counts as a mapping
VoteSummary(votes) == [d \in Range(VoteKeys(votes)) |-> CountOf(votes, d)]

\* max(vote_counts.items(), key=lambda x: x[1])[0] if vote_counts else 'HOLD':
\* max returns the first item, in insertion order, that has the largest count.
FinalDecision(votes) ==
    IF votes = <<>> THEN "HOLD"
    ELSE LET keys == VoteKeys(votes)
             best == CHOOSE i \in DOMAIN keys :
                        \A j \in DOMAIN keys :
                            \/ CountOf(votes, keys[j]) < CountOf(votes, keys[i])
                            \/ /\ CountOf(votes, keys[j]) = CountOf(votes, keys[i])
                               /\ i <= j
         IN  keys[best]

\* _run_committee_deliberation
RunCommitteeDeliberation(results) ==
    LET votes == VotesOf(results)
    IN  [decision |-> FinalDecision(votes),
         votes |-> votes,
         vote_summary |-> VoteSummary(votes)]

RECURSIVE SumSeq(_)
SumSeq(s) == IF s = <<>> THEN 0 ELSE Head(s) + SumSeq(Tail(s))

RECURSIVE Join(_)
Join(ts) == IF ts = <<>> THEN <<>> ELSE Head(ts) \o Join(Tail(ts))

FirstN(s, n) == SubSeq(s, 1, IF Len(s) < n THEN Len(s) ELSE n)

\* A 'confidence' value of a result dict: a number, or something float()
\* rejects.
Num(x) == [num |-> TRUE, val |-> x]
NotNum == [num |-> FALSE, val |-> 0]

\* float(result.get('confidence', 0.0)) does not raise.  The entries
\* analyze_pitch stores hold the keys success, content, error and metadata
\* only, so for them the default applies.
ConfidenceIsFloat(r) == "confidence" \in DOMAIN r => r.confidence.num

\* float(result.get('confidence', 0.0))
ResultConfidence(r) == IF "confidence" \in DOMAIN r THEN r.confidence.val ELSE 0

\* confidences holding the complement of each reported confidence
Confidences_Inverted(ok) ==
    LET numeric == SelectSeq(ok, ConfidenceIsFloat)
    IN  [i \in DOMAIN numeric |-> 100 - ResultConfidence(numeric[i])]

\* The list confidences: a successful result whose confidence float()
\* rejects is skipped by the except branch of the loop.
Confidences(ok) ==
    LET numeric == SelectSeq(ok, ConfidenceIsFloat)
    IN  [i \in DOMAIN numeric |-> ResultConfidence(numeric[i])]

\* The contents _generate_verdict_reasons appends to the 'unstructured'
\* descriptions: the metadata the agent manager builds has no 'reasons'
\* key, so every successful result with a non-empty content lands there.
RECURSIVE Descriptions(_)
Descriptions(results) ==
    IF results = <<>> THEN <<>>
    ELSE LET r == Head(results)
         IN  (IF r.success /\ Truthy(r.content) THEN <<r.content.text>> ELSE <<>>)
             \o Descriptions(Tail(results))

\* Names of the results that contributed a description
DescribingAgents(results) ==
    {results[i].name : i \in {j \in DOMAIN results :
                                results[j].success /\ Truthy(results[j].content)}}

\* _generate_verdict_reasons: one reason per non-empty category, the first
\* three descriptions joined, at most five reasons.  'unstructured' has
\* impact 1, which is labelled high.
GenerateVerdictReasons(results) ==
    LET descs == Descriptions(results)
    IN  IF descs = <<>> THEN <<>>
        ELSE << [category |-> "unstructured",
                 impact |-> "high",
                 description |-> Join(FirstN(descs, 3)),
                 source_agents |-> DescribingAgents(results)] >>

\* risk_score and opp_score when no agent metadata carries risk_factors or
\* opportunities (0.5 each)
DefaultRiskScore == 50
DefaultOppScore == 50

\* The risk/opportunity matrix of _generate_verdict
VerdictMatrix(risk, opp) ==
    IF risk < 30 /\ opp > 70 THEN "STRONG_INVEST"
    ELSE IF risk < 50 /\ opp > 50 THEN "INVEST"
    ELSE IF risk < 70 /\ opp > 30 THEN "CONSIDER"
    ELSE IF risk >= 70 /\ opp < 30 THEN "PASS"
    ELSE "HOLD"

\* successful_results without its `if v.get('success')` filter
Successful_All(results) == results

\* The successful results, in order
Successful(results) == SelectSeq(results, LAMBDA r : r.success)

\* default_verdict of _generate_verdict
DefaultVerdict(results) ==
    [raised |-> FALSE,
     verdict |-> "HOLD",
     confidence |-> 0,
     consensus |-> 0,
     successful_analyses |-> 0,
     total_analyses |-> Len(results),
     verdict_reasons |-> <<>>]

\* _generate_verdict without its early return for no successful result:
\* the average over an empty list raises.
GenerateVerdict_NoDefault(results) ==
    LET ok == Successful(results)
    IN  IF ok = <<>> THEN [DefaultVerdict(results) EXCEPT !.raised = TRUE]
        ELSE [raised |-> FALSE,
              verdict |-> VerdictMatrix(DefaultRiskScore, DefaultOppScore),
              confidence |-> IF Confidences(ok) # <<>>
                             THEN SumSeq(Confidences(ok)) \div Len(Confidences(ok))
                             ELSE 0,
              consensus |-> (100 * Len(Confidences(ok))) \div Len(results),
              successful_analyses |-> Len(Confidences(ok)),
              total_analyses |-> Len(results),
              verdict_reasons |-> GenerateVerdictReasons(results)]

\* _generate_verdict.  raised is the exception channel: TRUE when the call
\* raises instead of returning.
GenerateVerdict(results) ==
    LET ok == Successful(results)
        confidences == Confidences(ok)
    IN  IF ok = <<>> THEN DefaultVerdict(results)
        ELSE [raised |-> FALSE,
              verdict |-> VerdictMatrix(DefaultRiskScore, DefaultOppScore),
              confidence |-> IF confidences # <<>>
                             THEN SumSeq(confidences) \div Len(confidences)
                             ELSE 0,
              consensus |-> IF Len(results) > 0
                            THEN (100 * Len(confidences)) \div Len(results)
                            ELSE 0,
              successful_analyses |-> Len(confidences),
              total_analyses |-> Len(results),
              verdict_reasons |-> GenerateVerdictReasons(results)]

\* conf_label with strict comparisons
ConfLabel_Strict(conf) ==
    IF conf > 70 THEN "HIGH" ELSE IF conf > 40 THEN "MEDIUM" ELSE "LOW"

\* conf_label of analyze_pitch step 6.5
ConfLabel(conf) ==
    IF conf >= 70 THEN "HIGH" ELSE IF conf >= 40 THEN "MEDIUM" ELSE "LOW"

NoVerdict == [present |-> FALSE]

\* final_verdict of analyze_pitch step 6.5
BuildFinalVerdict(v) ==
    [present |-> TRUE,
     recommendation |-> v.verdict,
     confidence |-> v.confidence,
     confidence_label |-> ConfLabel(v.confidence),
     reasons |-> v.verdict_reasons,
     timestamp |-> "utcnow"]

----------------------------------------------------------------------------
(* CommitteeCoordinator.analyze_pitch                                      *)

NoDeliberation == [present |-> FALSE]

NoReturn == [status |-> "none"]

\* The entry analyze_pitch stores for a task: the fields of the response,
\* or the failure entry of its except branch when awaiting the task raised.
ResultEntry(name, st, resp) ==
    IF st = "raised"
    THEN [name |-> name, success |-> FALSE, content |-> NoneC, error |-> "exception"]
    ELSE [name |-> name, success |-> resp.success, content |-> resp.content,
          error |-> resp.error]

\* The dict of the `except Exception` handler around the whole method
ErrorReturn ==
    [status |-> "error", error |-> "exception",
     agent_results |-> <<>>, verdict |-> NoDeliberation, final_verdict |-> NoVerdict]

\* The dict returned at the end of the try block
CompletedReturn ==
    [status |-> "completed", error |-> "None",
     agent_results |-> agent_results, verdict |-> committee_verdict,
     final_verdict |-> final_verdict]

InitPitch ==
    /\ ap_pc = "idle"
    /\ task_state = [a \in AgentSet |-> "none"]
    /\ response = [a \in AgentSet |-> NoResponse]
    /\ idx = 1
    /\ agent_results = <<>>
    /\ committee_verdict = NoDeliberation
    /\ final_verdict = NoVerdict
    /\ ret = NoReturn

\* Steps 1-2: context, enrichment (no entity is extracted, so nothing is
\* fetched), then one asyncio task per agent.
Dispatch ==
    /\ ap_pc = "idle"
    /\ task_state' = [a \in AgentSet |-> "running"]
    /\ ap_pc' = "collecting"
    /\ UNCHANGED <<response, idx, agent_results, committee_verdict, final_verdict, ret>>
    /\ UNCHANGED not_pitch

\* ADKAgentManager.process_message returns: a success response with the
\* model's text, or the failure response of one of its except branches.
AgentReturns(a, r) ==
    /\ task_state[a] = "running"
    /\ task_state' = [task_state EXCEPT ![a] = "done"]
    /\ response' = [response EXCEPT ![a] = r]
    /\ UNCHANGED <<ap_pc, idx, agent_results, committee_verdict, final_verdict, ret>>
    /\ UNCHANGED not_pitch

\* An exception leaves the task.
AgentRaises(a) ==
    /\ task_state[a] = "running"
    /\ task_state' = [task_state EXCEPT ![a] = "raised"]
    /\ UNCHANGED <<ap_pc, response, idx, agent_results, committee_verdict,
                   final_verdict, ret>>
    /\ UNCHANGED not_pitch

\* The model invocation of the agent never returns.
AgentHangs(a) ==
    /\ task_state[a] = "running"
    /\ task_state' = [task_state EXCEPT ![a] = "hung"]
    /\ UNCHANGED <<ap_pc, response, idx, agent_results, committee_verdict,
                   final_verdict, ret>>
    /\ UNCHANGED not_pitch

\* The fan-in iteration without its try/except: a raising task takes the
\* whole method to its outer handler.
AwaitTask_NoCatch ==
    /\ ap_pc = "collecting"
    /\ idx <= Len(Agents)
    /\ task_state[Agents[idx]] \in {"done", "raised"}
    /\ IF task_state[Agents[idx]] = "raised"
       THEN /\ ret' = [status |-> "error", error |-> "exception",
                       agent_results |-> <<>>, verdict |-> [present |-> FALSE],
                       final_verdict |-> [present |-> FALSE]]
            /\ ap_pc' = "returned"
            /\ UNCHANGED <<idx, agent_results>>
       ELSE /\ agent_results' = Append(agent_results,
                    [name |-> Agents[idx], success |-> response[Agents[idx]].success,
                     content |-> response[Agents[idx]].content,
                     error |-> response[Agents[idx]].error])
            /\ idx' = idx + 1
            /\ UNCHANGED <<ap_pc, ret>>
    /\ UNCHANGED <<task_state, response, committee_verdict, final_verdict>>
    /\ UNCHANGED not_pitch

\* One iteration of `for agent_name, task in tasks`: await the task, store
\* its entry.  The await has no deadline: it resumes only when the task has
\* returned or raised.
AwaitTask ==
    /\ ap_pc = "collecting"
    /\ idx <= Len(Agents)
    /\ task_state[Agents[idx]] \in {"done", "raised"}
    /\ agent_results' = Append(agent_results,
            ResultEntry(Agents[idx], task_state[Agents[idx]], response[Agents[idx]]))
    /\ idx' = idx + 1
    /\ UNCHANGED <<ap_pc, task_state, response, committee_verdict, final_verdict, ret>>
    /\ UNCHANGED not_pitch

\* Step 3, after the loop
Deliberate ==
    /\ ap_pc = "collecting"
    /\ idx > Len(Agents)
    /\ committee_verdict' = [present |-> TRUE] @@ RunCommitteeDeliberation(agent_results)
    /\ ap_pc' = "deliberated"
    /\ UNCHANGED <<task_state, response, idx, agent_results, final_verdict, ret>>
    /\ UNCHANGED not_pitch

\* Steps 4-6.5: the risk radar, opportunity, dashboard and market steps
\* return fixed structures or are wrapped in their own try; then
\* _generate_verdict and the final_verdict dict.  An exception here reaches
\* the handler around the whole method.
GenerateFinalVerdict ==
    /\ ap_pc = "deliberated"
    /\ LET v == GenerateVerdict(agent_results)
       IN  IF v.raised
           THEN /\ ret' = ErrorReturn
                /\ ap_pc' = "returned"
                /\ UNCHANGED final_verdict
           ELSE /\ final_verdict' = BuildFinalVerdict(v)
                /\ ap_pc' = "verdict"
                /\ UNCHANGED ret
    /\ UNCHANGED <<task_state, response, idx, agent_results, committee_verdict>>
    /\ UNCHANGED not_pitch

\* Steps 7-8 (memory, report: each in its own try) and the return
Return ==
    /\ ap_pc = "verdict"
    /\ ret' = CompletedReturn
    /\ ap_pc' = "returned"
    /\ UNCHANGED <<task_state, response, idx, agent_results, committee_verdict,
                   final_verdict>>
    /\ UNCHANGED not_pitch

Responses == {OkResponse(t) : t \in Texts} \cup {FailResponse}

NextPitch ==
    \/ Dispatch
    \/ \E a \in AgentSet : \E r \in Responses : AgentReturns(a, r)
    \/ \E a \in AgentSet : AgentRaises(a)
    \/ \E a \in AgentSet : AgentHangs(a)
    \/ AwaitTask
    \/ Deliberate
    \/ GenerateFinalVerdict
    \/ Return

----------------------------------------------------------------------------
(* routers/analysis.py: evaluate_pitch and the background task run_analysis *)

\* Analyses one run of the model starts
MaxAnalyses == 3

AnalysisIds == 1..MaxAnalyses

InitSession ==
    /\ analysis_results = << >>
    /\ analysis_callbacks = << >>
    /\ bg = [id \in AnalysisIds |-> "none"]
    /\ emitted = [id \in AnalysisIds |-> << >>]

\* evaluate_pitch: a fresh uuid4, the initial status, the callback url if
\* the request has one, and run_analysis scheduled as a background task.
EvaluatePitch(id, has_callback) ==
    /\ id \notin DOMAIN analysis_results
    /\ analysis_results' = analysis_results @@ (id :> "processing")
    /\ analysis_callbacks' = IF has_callback
                             THEN analysis_callbacks @@ (id :> "url")
                             ELSE analysis_callbacks
    /\ bg' = [bg EXCEPT ![id] = "scheduled"]
    /\ UNCHANGED emitted
    /\ UNCHANGED not_session

\* run_analysis: its first statement is `return {}`; nothing after it is
\* executed, so the task ends without touching analysis_results and
\* without a call of send_progress_update.
RunAnalysis(id) ==
    /\ bg[id] = "scheduled"
    /\ bg' = [bg EXCEPT ![id] = "finished"]
    /\ UNCHANGED <<analysis_results, analysis_callbacks, emitted>>
    /\ UNCHANGED not_session

NextSession ==
    \/ \E id \in AnalysisIds : \E cb \in BOOLEAN : EvaluatePitch(id, cb)
    \/ \E id \in AnalysisIds : RunAnalysis(id)

----------------------------------------------------------------------------
(* services/websocket_manager.py: ConnectionManager                        *)
(*                                                                         *)
(* The manager runs on one asyncio event loop: a coroutine runs alone from *)
(* one await that suspends to the next.  Every `async with self.lock`      *)
(* block of the class has no await inside and the lock is free whenever a  *)
(* block is entered, so each block is one step.                            *)

\* send_progress_update calls one run of the model makes
MaxPublishes == 2

\* The WebSocket objects, and the analysis ids clients put in the URL
Sockets == {"ws1", "ws2", "ws3"}
Channels == {"A", "B"}

InitWS ==
    /\ active_connections = << >>
    /\ lock = "free"
    /\ ws_state = [w \in Sockets |-> "new"]
    /\ ws_analysis = [w \in Sockets |-> "none"]
    /\ pending_disc = {}
    /\ pub_pc = "idle"
    /\ pub_id = "none"
    /\ pub_count = 0
    /\ send_tasks = {}
    /\ send_state = [w \in Sockets |-> "none"]
    /\ pub_outcome = "none"
    /\ disc_at_begin = {}
    /\ gone_at_begin = {}

pub_vars == <<pub_pc, pub_id, pub_count, send_tasks, send_state, pub_outcome,
              disc_at_begin, gone_at_begin>>

\* del d[k]
DropKey(d, k) == [x \in DOMAIN d \ {k} |-> d[x]]

\* websocket_endpoint is entered and calls connect, which awaits
\* websocket.accept().
WsOpen(w, id) ==
    /\ ws_state[w] = "new"
    /\ ws_state' = [ws_state EXCEPT ![w] = "accepting"]
    /\ ws_analysis' = [ws_analysis EXCEPT ![w] = id]
    /\ UNCHANGED <<active_connections, lock, pending_disc, pub_vars>>
    /\ UNCHANGED not_ws

\* accept() raises: connect and the endpoint end, nothing is registered.
AcceptFails(w) ==
    /\ ws_state[w] = "accepting"
    /\ ws_state' = [ws_state EXCEPT ![w] = "refused"]
    /\ UNCHANGED <<active_connections, lock, ws_analysis, pending_disc, pub_vars>>
    /\ UNCHANGED not_ws

\* connect, after accept(): under the lock, create the set if the id is
\* new and add the websocket.
Connect(w) ==
    /\ ws_state[w] = "accepting"
    /\ lock = "free"
    /\ LET id == ws_analysis[w]
           sockets == IF id \in DOMAIN active_connections
                      THEN active_connections[id] ELSE {}
       IN  active_connections' =
               [x \in DOMAIN active_connections \cup {id} |->
                   IF x = id THEN sockets \cup {w} ELSE active_connections[x]]
    /\ ws_state' = [ws_state EXCEPT ![w] = "connected"]
    /\ UNCHANGED <<lock, ws_analysis, pending_disc, pub_vars>>
    /\ UNCHANGED not_ws

\* websocket_endpoint catches WebSocketDisconnect and calls disconnect,
\* which only creates the task _disconnect.
Disconnect(w) ==
    /\ ws_state[w] = "connected"
    /\ ws_state' = [ws_state EXCEPT ![w] = "closed"]
    /\ pending_disc' = pending_disc \cup {<<ws_analysis[w], w>>}
    /\ UNCHANGED <<active_connections, lock, ws_analysis, pub_vars>>
    /\ UNCHANGED not_ws

\* _disconnect that forgets the discard and only drops a key whose set
\* would become empty
DisconnectBody_NoDiscard(conns, id, w) ==
    IF id \in DOMAIN conns /\ conns[id] \ {w} = {}
    THEN [x \in DOMAIN conns \ {id} |-> conns[x]]
    ELSE conns

\* _disconnect that discards the websocket and never deletes the key
DisconnectBody_KeepKey(conns, id, w) ==
    IF id \in DOMAIN conns
    THEN [conns EXCEPT ![id] = conns[id] \ {w}]
    ELSE conns

\* The body of _disconnect for (analysis_id, websocket)
DisconnectBody(conns, id, w) ==
    IF id \in DOMAIN conns
    THEN IF conns[id] \ {w} = {}
         THEN DropKey(conns, id)
         ELSE [conns EXCEPT ![id] = conns[id] \ {w}]
    ELSE conns

\* The task _disconnect runs.
DisconnectTask(id, w) ==
    /\ <<id, w>> \in pending_disc
    /\ lock = "free"
    /\ active_connections' = DisconnectBody(active_connections, id, w)
    /\ pending_disc' = pending_disc \ {<<id, w>>}
    /\ UNCHANGED <<lock, ws_state, ws_analysis, pub_vars>>
    /\ UNCHANGED not_ws

\* Websockets whose disconnect() has been called / whose _disconnect has run
DisconnectCalled == {w \in Sockets : ws_state[w] = "closed"}
DisconnectDone == {w \in DisconnectCalled : <<ws_analysis[w], w>> \notin pending_disc}

\* send_progress_update up to its await: return if the id has no entry;
\* else, under the lock, one send_json coroutine per websocket of a copy of
\* the set (creating a coroutine object runs none of it, so the except
\* branch of the loop is never entered); return if there is none.
PublishBegin(id) ==
    /\ pub_pc = "idle"
    /\ pub_count < MaxPublishes
    /\ lock = "free"
    /\ pub_id' = id
    /\ pub_count' = pub_count + 1
    /\ disc_at_begin' = DisconnectCalled
    /\ gone_at_begin' = DisconnectDone
    /\ IF id \notin DOMAIN active_connections \/ active_connections[id] = {}
       THEN /\ pub_pc' = "idle"
            /\ pub_outcome' = "returned"
            /\ send_tasks' = {}
            /\ UNCHANGED send_state
       ELSE /\ pub_pc' = "gather"
            /\ pub_outcome' = "none"
            /\ send_tasks' = active_connections[id]
            /\ send_state' = [w \in Sockets |->
                                IF w \in active_connections[id] THEN "pending" ELSE "none"]
    /\ UNCHANGED <<active_connections, lock, ws_state, ws_analysis, pending_disc>>
    /\ UNCHANGED not_ws

\* A send_json of the gather completes: the client took the message.
SendCompletes(w) ==
    /\ pub_pc = "gather"
    /\ send_state[w] = "pending"
    /\ ws_state[w] = "connected"
    /\ send_state' = [send_state EXCEPT ![w] = "sent"]
    /\ UNCHANGED <<active_connections, lock, ws_state, ws_analysis, pending_disc,
                   pub_pc, pub_id, pub_count, send_tasks, pub_outcome,
                   disc_at_begin, gone_at_begin>>
    /\ UNCHANGED not_ws

\* A send_json of the gather raises (closed or broken connection).
SendFails(w) ==
    /\ pub_pc = "gather"
    /\ send_state[w] = "pending"
    /\ send_state' = [send_state EXCEPT ![w] = "failed"]
    /\ UNCHANGED <<active_connections, lock, ws_state, ws_analysis, pending_disc,
                   pub_pc, pub_id, pub_count, send_tasks, pub_outcome,
                   disc_at_begin, gone_at_begin>>
    /\ UNCHANGED not_ws

\* A send_json of the gather never completes: the client is connected and
\* does not read.
SendHangs(w) ==
    /\ pub_pc = "gather"
    /\ send_state[w] = "pending"
    /\ ws_state[w] = "connected"
    /\ send_state' = [send_state EXCEPT ![w] = "hung"]
    /\ UNCHANGED <<active_connections, lock, ws_state, ws_analysis, pending_disc,
                   pub_pc, pub_id, pub_count, send_tasks, pub_outcome,
                   disc_at_begin, gone_at_begin>>
    /\ UNCHANGED not_ws

\* What `await asyncio.gather(*send_tasks, return_exceptions=True)` gives
\* its caller once every send has ended: exceptions are results.
GatherOutcome(states) == "returned"

\* The gather resumes send_progress_update once every send has ended, and
\* the method returns.
PublishReturn ==
    /\ pub_pc = "gather"
    /\ \A w \in send_tasks : send_state[w] \in {"sent", "failed"}
    /\ pub_pc' = "idle"
    /\ pub_outcome' = GatherOutcome({send_state[w] : w \in send_tasks})
    /\ send_tasks' = {}
    /\ send_state' = [w \in Sockets |-> "none"]
    /\ UNCHANGED <<active_connections, lock, ws_state, ws_analysis, pending_disc,
                   pub_id, pub_count, disc_at_begin, gone_at_begin>>
    /\ UNCHANGED not_ws

NextWS ==
    \/ \E w \in Sockets : \E id \in Channels : WsOpen(w, id)
    \/ \E w \in Sockets : AcceptFails(w)
    \/ \E w \in Sockets : Connect(w)
    \/ \E w \in Sockets : Disconnect(w)
    \/ \E w \in Sockets : \E id \in Channels : DisconnectTask(id, w)
    \/ \E id \in Channels : PublishBegin(id)
    \/ \E w \in Sockets : SendCompletes(w)
    \/ \E w \in Sockets : SendFails(w)
    \/ \E w \in Sockets : SendHangs(w)
    \/ PublishReturn

----------------------------------------------------------------------------
(* routers/deal_analysis.py: simulate_investment_committee                 *)

\* committee_roles, by name, in order
Roles == <<"Sarah Chen", "James Wilson", "Dr. Emily Zhang",
           "Michael Rodriguez", "Priya Patel">>

\* vote_options, in order
VoteOptions == <<"STRONG_INVEST", "INVEST", "CONSIDER", "HIGH_RISK", "PASS", "Abstain">>

\* Values of the 'vote' field in a member's JSON: the five decisions, the
\* word Abstain, and a word outside vote_options.
AnsweredVotes == {"STRONG_INVEST", "INVEST", "CONSIDER", "HIGH_RISK", "PASS",
                  "Abstain", "BUY"}

\* The fields the model CommitteeMember requires (none has a default)
CommitteeMemberFields ==
    {"name", "role", "personality", "analysis", "vote", "confidence", "reasoning"}

\* The entry for a response whose JSON carries analysis, vote, confidence
\* and three key points
AnsweredMember(name, v) ==
    [name |-> name, role |-> "Partner", analysis |-> "analysis", vote |-> v,
     confidence |-> 90, key_points |-> <<"p1", "p2", "p3">>]

\* The entry for a response whose JSON is an object without these fields:
\* the defaults of analysis.get
DefaultedMember(name) ==
    [name |-> name, role |-> "Partner", analysis |-> "", vote |-> "Abstain",
     confidence |-> 50, key_points |-> <<>>]

\* The entry of the inner except branch (content that does not parse)
ParseErrorMember(name) ==
    [name |-> name, role |-> "Partner", analysis |-> "Error in analysis",
     vote |-> "Abstain", confidence |-> 0, key_points |-> <<>>]

\* votes.count(vote)
SimVoteCount(members, v) ==
    Cardinality({i \in DOMAIN members : members[i].vote = v})

\* max(voting_votes, key=voting_votes.get): voting_votes always holds the
\* five decisions, in the order of vote_options; the first highest count wins.
MajorityVote(members) ==
    LET voting == SubSeq(VoteOptions, 1, 5)
        best == CHOOSE i \in DOMAIN voting :
                    /\ \A j \in DOMAIN voting :
                           SimVoteCount(members, voting[j]) <= SimVoteCount(members, voting[i])
                    /\ \A j \in 1..(i - 1) :
                           SimVoteCount(members, voting[j]) < SimVoteCount(members, voting[i])
    IN  voting[best]

\* total_voting_members
TotalVotingMembers(members) ==
    Cardinality({i \in DOMAIN members :
                    \E k \in 1..5 : members[i].vote = VoteOptions[k]})

\* consensus_score, as a percentage
ConsensusScore(members) ==
    IF TotalVotingMembers(members) > 0
    THEN (100 * SimVoteCount(members, MajorityVote(members)))
             \div TotalVotingMembers(members)
    ELSE 0

\* final_verdict of the simulation
SimFinalVerdict(members) ==
    IF ConsensusScore(members) >= 75 THEN MajorityVote(members)
    ELSE IF MajorityVote(members) = "PASS" /\ ConsensusScore(members) >= 50 THEN "PASS"
    ELSE "CONSIDER"

\* dissenting_opinions: one string per member, kept here as its parts
DissentingOpinions(members, majority) ==
    LET all == SelectSeq(members, LAMBDA m : m.vote \notin {majority, "Abstain"})
    IN  FirstN([i \in DOMAIN all |->
                   [name |-> all[i].name, vote |-> all[i].vote,
                    analysis |-> all[i].analysis]], 5)

\* key_debate_points
RECURSIVE KeyDebatePointsAll(_)
KeyDebatePointsAll(members) ==
    IF members = <<>> THEN <<>>
    ELSE FirstN(Head(members).key_points, 2) \o KeyDebatePointsAll(Tail(members))

KeyDebatePoints(members) == FirstN(KeyDebatePointsAll(members), 10)

\* Validation of one committee_members dict against CommitteeMember
ValidatesAsCommitteeMember(m) == CommitteeMemberFields \subseteq DOMAIN m

\* InvestmentCommitteeResponse(...): a dict that fails validation raises
\* inside the try block, and the handler turns that into HTTP 500.
SimResponse(members) ==
    IF \A i \in DOMAIN members : ValidatesAsCommitteeMember(members[i])
    THEN [status |-> "ok",
          committee_members |-> members,
          final_verdict |-> SimFinalVerdict(members),
          consensus_score |-> ConsensusScore(members),
          majority_vote |-> MajorityVote(members),
          dissenting_opinions |-> DissentingOpinions(members, MajorityVote(members)),
          key_debate_points |-> KeyDebatePoints(members)]
    ELSE [status |-> "http_500"]

InitSim ==
    /\ sim_pc = "idle"
    /\ sim_idx = 1
    /\ committee_members = <<>>
    /\ sim_ret = [status |-> "none"]

\* One task per role is created
SimStart ==
    /\ sim_pc = "idle"
    /\ sim_pc' = "gathering"
    /\ UNCHANGED <<sim_idx, committee_members, sim_ret>>
    /\ UNCHANGED not_sim

\* The awaited task returns success=True with JSON carrying vote v
MemberAnswers(v) ==
    /\ sim_pc = "gathering"
    /\ sim_idx <= Len(Roles)
    /\ committee_members' = Append(committee_members, AnsweredMember(Roles[sim_idx], v))
    /\ sim_idx' = sim_idx + 1
    /\ UNCHANGED <<sim_pc, sim_ret>>
    /\ UNCHANGED not_sim

\* The awaited task returns success=True with a JSON object without fields
MemberAnswersEmpty ==
    /\ sim_pc = "gathering"
    /\ sim_idx <= Len(Roles)
    /\ committee_members' = Append(committee_members, DefaultedMember(Roles[sim_idx]))
    /\ sim_idx' = sim_idx + 1
    /\ UNCHANGED <<sim_pc, sim_ret>>
    /\ UNCHANGED not_sim

\* The awaited task returns success=True with content that does not parse
MemberUnparsable ==
    /\ sim_pc = "gathering"
    /\ sim_idx <= Len(Roles)
    /\ committee_members' = Append(committee_members, ParseErrorMember(Roles[sim_idx]))
    /\ sim_idx' = sim_idx + 1
    /\ UNCHANGED <<sim_pc, sim_ret>>
    /\ UNCHANGED not_sim

\* The awaited task returns success=False (process_message caught an
\* exception): `if response.success` has no else, nothing is appended.
MemberFails ==
    /\ sim_pc = "gathering"
    /\ sim_idx <= Len(Roles)
    /\ sim_idx' = sim_idx + 1
    /\ UNCHANGED <<sim_pc, committee_members, sim_ret>>
    /\ UNCHANGED not_sim

\* After the loop: the consensus is computed and the response is built
SimRespond ==
    /\ sim_pc = "gathering"
    /\ sim_idx > Len(Roles)
    /\ sim_ret' = SimResponse(committee_members)
    /\ sim_pc' = "done"
    /\ UNCHANGED <<sim_idx, committee_members>>
    /\ UNCHANGED not_sim

NextSim ==
    \/ SimStart
    \/ \E v \in AnsweredVotes : MemberAnswers(v)
    \/ MemberAnswersEmpty
    \/ MemberUnparsable
    \/ MemberFails
    \/ SimRespond

----------------------------------------------------------------------------
(* _generate_verdict and the final_verdict block as functions of their     *)
(* argument                                                                *)

\* Sample confidences, as percentages
ConfidenceSamples == {0, 39, 40, 69, 70, 100}

\* What a result dict can hold under 'confidence': nothing, a number, or a
\* value float() rejects
ConfidenceOptions ==
    {[given |-> FALSE, c |-> NotNum], [given |-> TRUE, c |-> NotNum]}
        \cup {[given |-> TRUE, c |-> Num(x)] : x \in ConfidenceSamples}

\* One agent_results entry
GivenResult(name, ok, o) ==
    IF o.given
    THEN [name |-> name, success |-> ok,
          content |-> IF ok THEN StrC(<<"ok">>) ELSE NoneC,
          error |-> IF ok THEN "None" ELSE "error",
          confidence |-> o.c]
    ELSE [name |-> name, success |-> ok,
          content |-> IF ok THEN StrC(<<"ok">>) ELSE NoneC,
          error |-> IF ok THEN "None" ELSE "error"]

\* The agent_results dicts the function is applied to: one entry per agent
GivenResults ==
    {[i \in DOMAIN Agents |-> GivenResult(Agents[i], f[i].ok, f[i].o)] :
        f \in [DOMAIN Agents -> [ok : BOOLEAN, o : ConfidenceOptions]]}

\* committee_coordinator_new.py: _generate_verdict.  sum() raises on a
\* confidence that is not a number; no metadata carries a sentiment, so
\* positive_count is the number of successful results whose metadata says
\* 'positive'.
NewPositive(r) ==
    "metadata" \in DOMAIN r /\ "sentiment" \in DOMAIN r.metadata
        /\ r.metadata.sentiment = "positive"

NewReasons(ok) ==
    LET with == SelectSeq(ok, LAMBDA r : "content" \in DOMAIN r /\ ~r.content.none)
    IN  [i \in DOMAIN with |-> with[i].name]

NewGenerateVerdict(results) ==
    LET ok == Successful(results)
        successful_analyses == Len(ok)
        positive_count == Len(SelectSeq(ok, NewPositive))
        confidences == [i \in DOMAIN ok |-> ResultConfidence(ok[i])]
        avg_confidence == IF ok = <<>> THEN 0 ELSE SumSeq(confidences) \div Len(ok)
    IN  IF \E i \in DOMAIN ok : ~ConfidenceIsFloat(ok[i])
        THEN [raised |-> TRUE]
        ELSE IF successful_analyses = 0
        THEN [verdict |-> "INCONCLUSIVE",
              confidence |-> 0,
              reason |-> "No agents were able to analyze the pitch"]
        ELSE [verdict |-> IF positive_count * 100 >= successful_analyses * 70
                          THEN "STRONG_INVEST"
                          ELSE IF positive_count * 100 >= successful_analyses * 50
                          THEN "INVEST"
                          ELSE "CONSIDER",
              confidence |-> avg_confidence,
              successful_analyses |-> successful_analyses,
              total_analyses |-> Len(results),
              reasons |-> FirstN(NewReasons(ok), 3)]

\* gv_new before the new coordinator's _generate_verdict is called
NotCalled == [called |-> FALSE]

InitVerdict ==
    /\ gv_pc = "input"
    /\ gv_results \in GivenResults
    /\ gv_verdict = [raised |-> FALSE]
    /\ gv_final = NoVerdict
    /\ gv_new = NotCalled

\* verdict = await self._generate_verdict(agent_results), then step 6.5
ApplyGenerateVerdict ==
    /\ gv_pc = "input"
    /\ gv_verdict' = GenerateVerdict(gv_results)
    /\ gv_final' = BuildFinalVerdict(GenerateVerdict(gv_results))
    /\ gv_pc' = "done"
    /\ UNCHANGED <<gv_results, gv_new>>
    /\ UNCHANGED not_gv

\* final_verdict = await self._generate_verdict(analysis_results) of
\* committee_coordinator_new.py
ApplyNewGenerateVerdict ==
    /\ gv_new = NotCalled
    /\ gv_new' = NewGenerateVerdict(gv_results)
    /\ UNCHANGED <<gv_pc, gv_results, gv_verdict, gv_final>>
    /\ UNCHANGED not_gv

NextVerdict == ApplyGenerateVerdict \/ ApplyNewGenerateVerdict

----------------------------------------------------------------------------
(* services/agents: the analysts' analyze and process_message              *)

Analysts == {"RiskAnalyst", "MarketExpert", "CompetitiveAnalyst",
             "TeamEvaluator", "FinanceExpert"}

\* Top-level keys an analyst looks for in the parsed object
Wrappers == {"none", "competitive_landscape", "team_analysis", "financial_analysis"}

\* Numeric values of a 'confidence' field, as percentages: in range, above
\* 1, negative, and the 75.0 of _get_fallback_response
LLMConfidenceSamples == {0, 90, 150, 7500, -20}

LLMConfidenceOptions ==
    {[given |-> FALSE, c |-> NotNum], [given |-> TRUE, c |-> NotNum]}
        \cup {[given |-> TRUE, c |-> Num(x)] : x \in LLMConfidenceSamples}

\* What call_llm does: raise HTTPException 429, raise another exception,
\* return a value that is neither str nor dict, return text without JSON,
\* return a JSON array, or return a JSON object.  nested is the shape of
\* the object's overall_risk entry.
LLMOutputs ==
    {[kind |-> k, wrapper |-> "none",
      conf |-> [given |-> FALSE, c |-> NotNum], nested |-> "ok"] :
        k \in {"raise_http", "raise_other", "other_type", "text", "list"}}
    \cup [kind : {"object"}, wrapper : Wrappers, conf : LLMConfidenceOptions,
          nested : {"ok", "not_dict", "bad_confidence"}]

\* _get_fallback_response
FallbackResponse ==
    [kind |-> "object", wrapper |-> "competitive_landscape",
     conf |-> [given |-> TRUE, c |-> Num(7500)], nested |-> "ok"]

\* The 'file' entry of input_data
FileInputs == {"none", "pdf_ok", "pdf_empty", "pdf_unreadable"}

\* An Optional[str]: None, or a str that may be empty
ErrNone == [none |-> TRUE, empty |-> TRUE]
ErrMsg == [none |-> FALSE, empty |-> FALSE]
ErrEmpty == [none |-> FALSE, empty |-> TRUE]

\* _format_response(data, confidence=c)
FormatOk(c) == [raised |-> FALSE, success |-> TRUE, error |-> ErrNone, confidence |-> c]

\* _format_response(data, success=False, error=error_msg, confidence=0.0)
FormatFail == [raised |-> FALSE, success |-> FALSE, error |-> ErrMsg, confidence |-> 0]

\* _format_response(data, success=False): error and confidence keep their
\* defaults None and 1.0
FormatFailDefaults ==
    [raised |-> FALSE, success |-> FALSE, error |-> ErrNone, confidence |-> 100]

\* An exception leaving the block
Raises == [raised |-> TRUE, success |-> FALSE, error |-> ErrNone, confidence |-> 0]

\* parsed.get('confidence', default)
GetConfidence(o, default) == IF o.conf.given THEN o.conf.c ELSE Num(default)

\* try: float(c) except (TypeError, ValueError): 0.5
FloatOrHalf(c) == IF c.num THEN c.val ELSE 50

\* RiskAnalyst.analyze inside its outer try.  A missing confidence is
\* filled from get_default_risk_analysis (0.1) before float() is applied.
RiskBody(o) ==
    CASE o.kind \in {"raise_http", "raise_other"} -> Raises
      [] o.kind = "other_type" -> FormatFail
      [] o.kind \in {"text", "list"} -> FormatOk(10)
      [] OTHER ->
            IF ~GetConfidence(o, 10).num THEN FormatOk(50)
            ELSE IF o.nested = "not_dict" THEN FormatFail
            ELSE IF o.nested = "bad_confidence" THEN FormatOk(50)
            ELSE FormatOk(GetConfidence(o, 10).val)

\* MarketExpert.analyze inside its outer try
MarketBody(o) ==
    CASE o.kind \in {"raise_http", "raise_other"} -> Raises
      [] o.kind = "other_type" -> FormatFail
      [] o.kind \in {"text", "list"} -> FormatOk(10)
      [] OTHER -> FormatOk(FloatOrHalf(GetConfidence(o, 10)))

\* CompetitiveAnalyst.analyze inside its outer try
CompetitiveBody(o) ==
    CASE o.kind \in {"raise_http", "raise_other"} -> Raises
      [] o.kind \in {"other_type", "list"} -> FormatFail
      [] o.kind = "text" -> FormatOk(10)
      [] OTHER -> FormatOk(FloatOrHalf(GetConfidence(o, 80)))

\* TeamEvaluator.analyze inside its outer try
TeamBody(o) ==
    CASE o.kind \in {"raise_http", "raise_other"} -> Raises
      [] o.kind = "other_type" -> FormatFail
      [] o.kind = "text" -> FormatOk(10)
      [] o.kind = "list" -> FormatOk(80)
      [] OTHER ->
            IF o.wrapper = "team_analysis"
            THEN FormatOk(FloatOrHalf(GetConfidence(o, 80)))
            ELSE FormatOk(80)

\* FinanceExpert.analyze inside its outer try
FinanceBody(o, file) ==
    IF file \in {"pdf_empty", "pdf_unreadable"} THEN FormatFailDefaults
    ELSE CASE o.kind \in {"raise_http", "raise_other"} -> Raises
           [] o.kind = "other_type" -> FormatFail
           [] o.kind = "text" -> FormatOk(10)
           [] o.kind = "list" -> FormatOk(80)
           [] OTHER ->
                 IF o.wrapper = "financial_analysis"
                 THEN FormatOk(FloatOrHalf(GetConfidence(o, 80)))
                 ELSE FormatOk(80)

AnalyzeBody(agent, o, file) ==
    CASE agent = "RiskAnalyst" -> RiskBody(o)
      [] agent = "MarketExpert" -> MarketBody(o)
      [] agent = "CompetitiveAnalyst" -> CompetitiveBody(o)
      [] agent = "TeamEvaluator" -> TeamBody(o)
      [] OTHER -> FinanceBody(o, file)

\* analyze without its outer try/except
Analyze_NoOuterTry(agent, o, file) == AnalyzeBody(agent, o, file)

\* analyze: the outer `except Exception` turns whatever escaped into a
\* failure response
Analyze(agent, o, file) ==
    IF AnalyzeBody(agent, o, file).raised THEN FormatFail
    ELSE AnalyzeBody(agent, o, file)

\* What the wrapped model does in ADKAgent.process_message: return an
\* object with a str .text, one without .text, one whose .text is not a
\* str, raise with or without a message, or be absent
ModelBehaviours == {"text", "no_text", "bad_text", "raise", "raise_empty", "not_configured"}

\* ADKAgent.process_message
ADKProcessMessage(b) ==
    CASE b \in {"text", "no_text"} -> [raised |-> FALSE, success |-> TRUE, error |-> ErrNone]
      [] b = "raise_empty" -> [raised |-> FALSE, success |-> FALSE, error |-> ErrEmpty]
      [] OTHER -> [raised |-> FALSE, success |-> FALSE, error |-> ErrMsg]

\* ADKAgentManager.process_message
ManagerProcessMessage(found, b) ==
    IF ~found THEN [raised |-> FALSE, success |-> FALSE, error |-> ErrMsg]
    ELSE ADKProcessMessage(b)

NoAgentResponse == [raised |-> FALSE, success |-> FALSE, error |-> ErrNone, confidence |-> 0]

InitAgentInputs ==
    /\ ag_pc = "input"
    /\ ag_agent \in Analysts
    /\ ag_llm \in LLMOutputs
    /\ ag_file \in FileInputs
    /\ ag_resp = NoAgentResponse
    /\ pm_pc = "input"
    /\ pm_found \in BOOLEAN
    /\ pm_model \in ModelBehaviours
    /\ pm_resp = [raised |-> FALSE, success |-> FALSE, error |-> ErrNone]

\* response = await agent.analyze(input_data)
CallAnalyze ==
    /\ ag_pc = "input"
    /\ ag_resp' = Analyze(ag_agent, ag_llm, ag_file)
    /\ ag_pc' = "done"
    /\ UNCHANGED <<ag_agent, ag_llm, ag_file, pm_pc, pm_found, pm_model, pm_resp>>
    /\ UNCHANGED not_agent

\* response = await agent_manager.process_message(name, message, context)
CallProcessMessage ==
    /\ pm_pc = "input"
    /\ pm_resp' = ManagerProcessMessage(pm_found, pm_model)
    /\ pm_pc' = "done"
    /\ UNCHANGED <<ag_pc, ag_agent, ag_llm, ag_file, ag_resp, pm_found, pm_model>>
    /\ UNCHANGED not_agent

NextAgent ==
    \/ CallAnalyze
    \/ CallProcessMessage

----------------------------------------------------------------------------
(* services/llm_client.py: call_llm and its rate limiter                   *)

\* RATE_LIMIT_DELAY, in seconds
RATE_LIMIT_DELAY == 30

\* The clock advances in steps of TickSeconds up to MaxTime
TickSeconds == 10
MaxTime == 90

\* The analyses running in the process; each makes one call_llm call
Analyses == {"A", "B", "C"}

\* wait_time of a call that reads current_time t and last_call_time l
WaitTime(t, l) == IF t - l < RATE_LIMIT_DELAY THEN RATE_LIMIT_DELAY - (t - l) ELSE 0

\* last_call_time is 0 at import; time.time() is far beyond RATE_LIMIT_DELAY
InitLLM ==
    /\ now = RATE_LIMIT_DELAY
    /\ last_call_time = 0
    /\ llm_pc = [s \in Analyses |-> "idle"]
    /\ llm_call_time = [s \in Analyses |-> 0]
    /\ llm_wait = [s \in Analyses |-> 0]
    /\ llm_invoke_time = [s \in Analyses |-> 0]

\* Time passes
Tick ==
    /\ now + TickSeconds <= MaxTime
    /\ now' = now + TickSeconds
    /\ UNCHANGED <<last_call_time, llm_pc, llm_call_time, llm_wait, llm_invoke_time>>
    /\ UNCHANGED not_llm

\* call_llm up to its first await: the call reads the clock and
\* last_call_time; with nothing to wait for it goes on to set
\* last_call_time and start the invocation, otherwise it sleeps.
CallBegin(s) ==
    /\ llm_pc[s] = "idle"
    /\ llm_call_time' = [llm_call_time EXCEPT ![s] = now]
    /\ llm_wait' = [llm_wait EXCEPT ![s] = WaitTime(now, last_call_time)]
    /\ IF WaitTime(now, last_call_time) > 0
       THEN /\ llm_pc' = [llm_pc EXCEPT ![s] = "sleeping"]
            /\ UNCHANGED <<last_call_time, llm_invoke_time>>
       ELSE /\ llm_pc' = [llm_pc EXCEPT ![s] = "invoking"]
            /\ last_call_time' = now
            /\ llm_invoke_time' = [llm_invoke_time EXCEPT ![s] = now]
    /\ UNCHANGED now
    /\ UNCHANGED not_llm

\* asyncio.sleep(wait_time) is over: the call sets last_call_time and
\* starts the invocation, without reading last_call_time again
WakeInvoke(s) ==
    /\ llm_pc[s] = "sleeping"
    /\ now >= llm_call_time[s] + llm_wait[s]
    /\ llm_pc' = [llm_pc EXCEPT ![s] = "invoking"]
    /\ last_call_time' = now
    /\ llm_invoke_time' = [llm_invoke_time EXCEPT ![s] = now]
    /\ UNCHANGED <<now, llm_call_time, llm_wait>>
    /\ UNCHANGED not_llm

\* asyncio.to_thread(model.generate_content, ...) is over and call_llm returns
InvokeReturns(s) ==
    /\ llm_pc[s] = "invoking"
    /\ llm_pc' = [llm_pc EXCEPT ![s] = "done"]
    /\ UNCHANGED <<now, last_call_time, llm_call_time, llm_wait, llm_invoke_time>>
    /\ UNCHANGED not_llm

NextLLM ==
    \/ Tick
    \/ \E s \in Analyses : CallBegin(s)
    \/ \E s \in Analyses : WakeInvoke(s)
    \/ \E s \in Analyses : InvokeReturns(s)

----------------------------------------------------------------------------
(* routers/deal_analysis.py: extract_analysis_from_text                    *)
(*                                                                         *)
(* A text is a sequence of lines.  The function's confidence is a float on *)
(* a 0-100 scale; it is kept in tenths: 63.0 is 630.                       *)

\* Most lines a sample text has
MaxLines == 2

\* Sample lines: one per keyword list, one that holds a pass keyword which
\* contains an invest keyword, one without keyword, and one of more than 20
\* characters without keyword
ExLines == {"invest", "not invest", "risky", "maybe", "hello",
            "a long line that has no keyword"}

\* any(keyword in text_lower for keyword in invest_keywords), and the same
\* for pass_keywords and consider_keywords
HasInvestKeyword(text) == \E i \in DOMAIN text : text[i] \in {"invest", "not invest"}
HasPassKeyword(text) == \E i \in DOMAIN text : text[i] \in {"not invest", "risky"}
HasConsiderKeyword(text) == \E i \in DOMAIN text : text[i] = "maybe"

\* len(line) > 20 and not line.startswith('```') and not line.startswith('{')
MeaningfulLine(l) == l = "a long line that has no keyword"

\* role_confidence_map, in tenths, and the .get default
ExRoles == {"Risk Analyst", "Market Expert", "Finance Partner", "Skeptical VC", "Partner"}
RoleConfidence(role) ==
    CASE role = "Risk Analyst" -> 8
      [] role = "Market Expert" -> 7
      [] role = "Finance Partner" -> 9
      [] role = "Skeptical VC" -> 6
      [] OTHER -> 7

\* vote and confidence chosen by the if / elif chain
KeywordVote(text) ==
    IF HasInvestKeyword(text) THEN [vote |-> "INVEST", confidence |-> 70]
    ELSE IF HasPassKeyword(text) THEN [vote |-> "PASS", confidence |-> 60]
    ELSE IF HasConsiderKeyword(text) THEN [vote |-> "CONSIDER", confidence |-> 50]
    ELSE [vote |-> "CONSIDER", confidence |-> 40]

Min(a, b) == IF a <= b THEN a ELSE b

\* min(confidence * role_confidence_map.get(role, 0.7), 100.0)
RoleAdjusted(c, role) == Min(c * RoleConfidence(role), 1000)

ExtractAnalysisFromText(text, role) ==
    LET kv == KeywordVote(text)
        meaningful == SelectSeq(text, MeaningfulLine)
    IN  [raised |-> FALSE,
         analysis |-> IF Len(meaningful) >= 1 THEN meaningful[1] ELSE "Analysis provided by role",
         vote |-> kv.vote,
         confidence |-> RoleAdjusted(kv.confidence, role),
         reasoning |-> IF Len(meaningful) >= 2 THEN meaningful[2] ELSE "Based on role perspective"]

ExTexts == UNION {[1..n -> ExLines] : n \in 0..MaxLines}

NoExtract == [called |-> FALSE]

InitExtract ==
    /\ ex_pc = "input"
    /\ ex_text \in ExTexts
    /\ ex_role \in ExRoles
    /\ ex_ret = NoExtract

\* Outside SpecExtract the function is not called
InitExtractIdle ==
    /\ ex_pc = "input"
    /\ ex_text = <<>>
    /\ ex_role = "Partner"
    /\ ex_ret = NoExtract

CallExtract ==
    /\ ex_pc = "input"
    /\ ex_ret' = ExtractAnalysisFromText(ex_text, ex_role)
    /\ ex_pc' = "done"
    /\ UNCHANGED <<ex_text, ex_role>>
    /\ UNCHANGED not_ex

NextExtract == CallExtract

----------------------------------------------------------------------------
(* services/orchestrator.py: run_next_round on one DebateSession           *)
(*                                                                         *)
(* The session was created by start_session.  DebateSession.get gives each *)
(* call its own copy of the stored document; session.save() writes the     *)
(* whole copy back.  Between two awaits a call runs alone.  The store      *)
(* itself does not fail.                                                   *)

\* The agents api_start gives a session
RouterAgents == 4

\* run_next_round calls one run of the model makes
MaxCalls == 5

\* The requests that call run_next_round
Callers == {"c1", "c2"}

\* Sample replies of call_llm
Replies == {"yes", "no"}

\* A new DebateSession with n agents: rounds = 0, no messages
NewSession(n) == [rounds |-> 0, agents |-> [i \in 1..n |-> <<>>]]

NoSession == [rounds |-> 0, agents |-> <<>>]

InitDebateWith(n) ==
    /\ d_db = NewSession(n)
    /\ d_time = 0
    /\ d_calls = 0
    /\ d_pc = [c \in Callers |-> "idle"]
    /\ d_session = [c \in Callers |-> NoSession]
    /\ d_idx = [c \in Callers |-> 0]
    /\ d_reply = [c \in Callers |-> "none"]

\* The session api_start creates
InitDebate == InitDebateWith(RouterAgents)

\* Sessions start_session creates from agent_definitions of any length
InitDebateAny == \E n \in 1..RouterAgents : InitDebateWith(n)

\* idx that always names the first agent
NextSpeaker_First(rounds, n) == 0

\* idx = session.rounds % len(session.agents)
NextSpeaker(rounds, n) == rounds % n

InFlight(c) == d_pc[c] \in {"calling_llm", "saving"}

\* run_next_round up to `await call_llm`: the session is loaded, idx is
\* computed, the prompt is built.
LoadSession(c) ==
    /\ ~InFlight(c)
    /\ d_calls < MaxCalls
    /\ d_calls' = d_calls + 1
    /\ d_session' = [d_session EXCEPT ![c] = d_db]
    /\ d_idx' = [d_idx EXCEPT ![c] = NextSpeaker(d_db.rounds, Len(d_db.agents))]
    /\ d_reply' = [d_reply EXCEPT ![c] = "none"]
    /\ d_pc' = [d_pc EXCEPT ![c] = "calling_llm"]
    /\ UNCHANGED <<d_db, d_time>>
    /\ UNCHANGED not_debate

\* run_next_round with a session_id the store does not hold: ValueError
SessionNotFound(c) ==
    /\ ~InFlight(c)
    /\ d_calls < MaxCalls
    /\ d_calls' = d_calls + 1
    /\ d_session' = [d_session EXCEPT ![c] = NoSession]
    /\ d_reply' = [d_reply EXCEPT ![c] = "none"]
    /\ d_pc' = [d_pc EXCEPT ![c] = "not_found"]
    /\ UNCHANGED <<d_db, d_time, d_idx>>
    /\ UNCHANGED not_debate

\* call_llm returns reply: the message is appended to the local copy and
\* rounds is incremented, up to `await session.save()`.
LLMReplies(c, reply) ==
    /\ d_pc[c] = "calling_llm"
    /\ LET a == d_idx[c] + 1
           msg == [agent_name |-> a, text |-> reply, created_at |-> d_time]
           session == d_session[c]
       IN  d_session' = [d_session EXCEPT ![c] =
               [rounds |-> session.rounds + 1,
                agents |-> [session.agents EXCEPT ![a] = Append(@, msg)]]]
    /\ d_reply' = [d_reply EXCEPT ![c] = reply]
    /\ d_time' = d_time + 1
    /\ d_pc' = [d_pc EXCEPT ![c] = "saving"]
    /\ UNCHANGED <<d_db, d_calls, d_idx>>
    /\ UNCHANGED not_debate

\* call_llm raises, or returns a value AgentMessage rejects: the call ends
\* with the exception.
LLMRaises(c) ==
    /\ d_pc[c] = "calling_llm"
    /\ d_time' = d_time + 1
    /\ d_pc' = [d_pc EXCEPT ![c] = "raised"]
    /\ UNCHANGED <<d_db, d_calls, d_session, d_idx, d_reply>>
    /\ UNCHANGED not_debate

\* session.save() completes and the reply is returned.
SaveSession(c) ==
    /\ d_pc[c] = "saving"
    /\ d_db' = d_session[c]
    /\ d_pc' = [d_pc EXCEPT ![c] = "returned"]
    /\ UNCHANGED <<d_time, d_calls, d_session, d_idx, d_reply>>
    /\ UNCHANGED not_debate

\* One client calling again and again
NextDebate ==
    \/ LoadSession("c1")
    \/ SessionNotFound("c1")
    \/ \E reply \in Replies : LLMReplies("c1", reply)
    \/ LLMRaises("c1")
    \/ SaveSession("c1")

\* Two clients
NextDebateOverlap ==
    \/ \E c \in Callers : LoadSession(c)
    \/ \E c \in Callers : SessionNotFound(c)
    \/ \E c \in Callers : \E reply \in Replies : LLMReplies(c, reply)
    \/ \E c \in Callers : LLMRaises(c)
    \/ \E c \in Callers : SaveSession(c)

----------------------------------------------------------------------------
(* services/analysis_service.py: AnalysisService                           *)
(*                                                                         *)
(* _analyze_pitch, _analyze_website, _combine_analyses and                 *)
(* _generate_recommendations catch what their LLM call raises and return a *)
(* value; the store itself does not fail once the record is inserted.      *)

\* analyze_startup calls one run of the model makes
MaxRecords == 2

RecordIds == 1..MaxRecords

\* What _combine_analyses returns: a dict of the asked structure, a dict
\* whose business_overview is not a string, the dict {"error": ...} of
\* its except branch, or the empty dict
CombinedKinds == {"dict", "odd_dict", "error_dict", "empty_dict"}

\* bool(analysis_result) in save_analysis_results
TruthyDict(kind) == kind # "empty_dict"

NoRecord == [status |-> "absent"]

\* analysis_data of create_analysis_record
NewRecord ==
    [status |-> "processing", analysis |-> "None",
     committee_debate |-> "None", summary |-> "None"]

\* The local dict `analysis` before its first key is set
EmptyAnalysis == [pitch_analysis |-> FALSE, website_analysis |-> "absent",
                  combined_analysis |-> "absent"]

\* save_analysis_results: the $set document built from the arguments that
\* are truthy, applied to the record.  The arguments are None or a value.
SaveAnalysisResults(record, analysis_result, committee_debate, summary) ==
    LET r1 == IF analysis_result # "None" /\ TruthyDict(analysis_result)
              THEN [record EXCEPT !.analysis = analysis_result, !.status = "completed"]
              ELSE record
        r2 == IF committee_debate # "None"
              THEN [r1 EXCEPT !.committee_debate = committee_debate]
              ELSE r1
    IN  IF summary # "None" THEN [r2 EXCEPT !.summary = summary] ELSE r2

InitAnalysis ==
    /\ as_db = [id \in RecordIds |-> NoRecord]
    /\ as_pc = [id \in RecordIds |-> "new"]
    /\ as_url = [id \in RecordIds |-> FALSE]
    /\ as_analysis = [id \in RecordIds |-> EmptyAnalysis]

\* analyze_startup: the record is inserted with status 'processing', the
\* task _perform_analysis is created and the call returns.
AnalyzeStartup(id, url) ==
    /\ as_pc[id] = "new"
    /\ as_db' = [as_db EXCEPT ![id] = NewRecord]
    /\ as_url' = [as_url EXCEPT ![id] = url]
    /\ as_pc' = [as_pc EXCEPT ![id] = "spawned"]
    /\ UNCHANGED as_analysis
    /\ UNCHANGED not_as

\* analyze_startup when the insert raises: no analysis_id, HTTP 500
CreateFails(id) ==
    /\ as_pc[id] = "new"
    /\ as_pc' = [as_pc EXCEPT ![id] = "http_500"]
    /\ UNCHANGED <<as_db, as_url, as_analysis>>
    /\ UNCHANGED not_as

\* _perform_analysis up to the website block: pitch_analysis is set
PitchAnalysed(id) ==
    /\ as_pc[id] = "spawned"
    /\ as_analysis' = [as_analysis EXCEPT ![id].pitch_analysis = TRUE]
    /\ as_pc' = [as_pc EXCEPT ![id] = IF as_url[id] THEN "website" ELSE "combine"]
    /\ UNCHANGED <<as_db, as_url>>
    /\ UNCHANGED not_as

\* The website block: pages scraped and analysed ('processed'), nothing
\* scraped, or an exception caught by the inner except (both 'error')
WebsiteAnalysed(id, status) ==
    /\ as_pc[id] = "website"
    /\ as_analysis' = [as_analysis EXCEPT ![id].website_analysis = status]
    /\ as_pc' = [as_pc EXCEPT ![id] = "combine"]
    /\ UNCHANGED <<as_db, as_url>>
    /\ UNCHANGED not_as

\* analysis['combined_analysis'] = await self._combine_analyses(
\*     analysis['pitch_analysis'], analysis['website_analysis']):
\* the second subscript raises KeyError when the website block was skipped.
Combine(id, kind) ==
    /\ as_pc[id] = "combine"
    /\ IF as_analysis[id].website_analysis = "absent"
       THEN /\ as_pc' = [as_pc EXCEPT ![id] = "except"]
            /\ UNCHANGED as_analysis
       ELSE /\ as_pc' = [as_pc EXCEPT ![id] = "combined"]
            /\ as_analysis' = [as_analysis EXCEPT ![id].combined_analysis = kind]
    /\ UNCHANGED <<as_db, as_url>>
    /\ UNCHANGED not_as

\* Recommendations, committee debate and summary, then the save of the
\* results.  _generate_summary slices business_overview and adds '...':
\* TypeError when it is not a string.
FinishAnalysis(id) ==
    /\ as_pc[id] = "combined"
    /\ IF as_analysis[id].combined_analysis = "odd_dict"
       THEN /\ as_pc' = [as_pc EXCEPT ![id] = "except"]
            /\ UNCHANGED as_db
       ELSE /\ as_pc' = [as_pc EXCEPT ![id] = "finished_ok"]
            /\ as_db' = [as_db EXCEPT ![id] =
                   SaveAnalysisResults(@, as_analysis[id].combined_analysis,
                                       "debate", "summary_completed")]
    /\ UNCHANGED <<as_url, as_analysis>>
    /\ UNCHANGED not_as

\* The except branch of _perform_analysis: save_analysis_results(None,
\* None, {'error': ..., 'status': 'failed'}), then analysis is returned
\* with its 'error' key.
HandleFailure(id) ==
    /\ as_pc[id] = "except"
    /\ as_db' = [as_db EXCEPT ![id] =
           SaveAnalysisResults(@, "None", "None", "summary_failed")]
    /\ as_pc' = [as_pc EXCEPT ![id] = "finished_error"]
    /\ UNCHANGED <<as_url, as_analysis>>
    /\ UNCHANGED not_as

NextAnalysis ==
    \/ \E id \in RecordIds : \E url \in BOOLEAN : AnalyzeStartup(id, url)
    \/ \E id \in RecordIds : CreateFails(id)
    \/ \E id \in RecordIds : PitchAnalysed(id)
    \/ \E id \in RecordIds : \E status \in {"processed", "error"} : WebsiteAnalysed(id, status)
    \/ \E id \in RecordIds : \E kind \in CombinedKinds : Combine(id, kind)
    \/ \E id \in RecordIds : FinishAnalysis(id)
    \/ \E id \in RecordIds : HandleFailure(id)

----------------------------------------------------------------------------
(* Specifications                                                          *)

\* Every component starts from its state after construction; the
\* argument of _generate_verdict is fixed to an empty-confidence sample
\* outside SpecVerdict.
InitVerdictIdle ==
    /\ gv_pc = "input"
    /\ gv_results = [i \in DOMAIN Agents |->
                        GivenResult(Agents[i], FALSE, [given |-> FALSE, c |-> NotNum])]
    /\ gv_verdict = [raised |-> FALSE]
    /\ gv_final = NoVerdict
    /\ gv_new = NotCalled

\* Outside SpecAgent no analyst is called
InitAgentIdle ==
    /\ ag_pc = "input"
    /\ ag_agent = "RiskAnalyst"
    /\ ag_llm = FallbackResponse
    /\ ag_file = "none"
    /\ ag_resp = NoAgentResponse
    /\ pm_pc = "input"
    /\ pm_found = TRUE
    /\ pm_model = "text"
    /\ pm_resp = [raised |-> FALSE, success |-> FALSE, error |-> ErrNone]

\* The components that start the same way in every specification
InitCore == InitPitch /\ InitSession /\ InitWS /\ InitSim /\ InitLLM

Init ==
    /\ InitCore /\ InitVerdictIdle /\ InitAgentIdle
    /\ InitExtractIdle /\ InitDebate /\ InitAnalysis

Next == NextPitch

Spec == Init /\ [][Next]_vars

SpecSession == Init /\ [][NextSession]_vars

SpecWS == Init /\ [][NextWS]_vars

SpecSim == Init /\ [][NextSim]_vars

\* _generate_verdict applied to each of GivenResults
InitGiven ==
    /\ InitCore /\ InitVerdict /\ InitAgentIdle
    /\ InitExtractIdle /\ InitDebate /\ InitAnalysis

SpecVerdict == InitGiven /\ [][NextVerdict]_vars

SpecLLM == Init /\ [][NextLLM]_vars

\* analyze and process_message applied to each input
InitCalled ==
    /\ InitCore /\ InitVerdictIdle /\ InitAgentInputs
    /\ InitExtractIdle /\ InitDebate /\ InitAnalysis

SpecAgent == InitCalled /\ [][NextAgent]_vars

\* extract_analysis_from_text applied to each of ExTexts and ExRoles
InitTexts ==
    /\ InitCore /\ InitVerdictIdle /\ InitAgentIdle
    /\ InitExtract /\ InitDebate /\ InitAnalysis

SpecExtract == InitTexts /\ [][NextExtract]_vars

\* run_next_round on a session of any number of agents
InitSessions ==
    /\ InitCore /\ InitVerdictIdle /\ InitAgentIdle
    /\ InitExtractIdle /\ InitDebateAny /\ InitAnalysis

SpecDebate == InitSessions /\ [][NextDebate]_vars

SpecDebateOverlap == InitSessions /\ [][NextDebateOverlap]_vars

SpecAnalysis == Init /\ [][NextAnalysis]_vars

----------------------------------------------------------------------------
(* Claims about CommitteeCoordinator.analyze_pitch (Spec)                  *)

Returned == ap_pc = "returned"

NoSuccess(results) == \A i \in DOMAIN results : ~results[i].success

\* C1. Isolation: whatever each agent task did (success response, failure
\* response, exception), the returned agent_results has exactly one entry
\* per configured agent, no exception reached the handler around the
\* method, and a final verdict was produced.
C1_Isolation ==
    Returned =>
        /\ Len(ret.agent_results) = Len(Agents)
        /\ \A i \in DOMAIN Agents : ret.agent_results[i].name = Agents[i]
        /\ ret.error = "None"
        /\ ret.final_verdict.present

\* A run with one task of each kind has returned.
C1_Witness ==
    /\ Returned
    /\ \E a \in AgentSet : task_state[a] = "raised"
    /\ \E a \in AgentSet : task_state[a] = "done" /\ ~response[a].success
    /\ \E a \in AgentSet : task_state[a] = "done" /\ response[a].success

\* C2. Per-task deadline: a task that never resolves is timed out, so the
\* analysis never stops short of its return.  Stated as: a state in which
\* no step is possible is a state after the return.
C2_AnalysisTerminates == Returned \/ ENABLED Next

\* C4. Agent outcomes never give status 'error': the call returns
\* 'completed' with a final_verdict that has recommendation, confidence,
\* confidence_label, reasons and timestamp.
C4_CompletedWellFormed ==
    Returned =>
        /\ ret.status = "completed"
        /\ ret.final_verdict.present
        /\ {"recommendation", "confidence", "confidence_label", "reasons", "timestamp"}
               \subseteq DOMAIN ret.final_verdict
        /\ ret.final_verdict.recommendation \in
               {"STRONG_INVEST", "INVEST", "CONSIDER", "PASS", "HOLD"}
        /\ ret.final_verdict.confidence \in 0..100
        /\ ret.final_verdict.confidence_label \in {"LOW", "MEDIUM", "HIGH"}

\* The call has returned with every agent failed.
C4_Witness ==
    /\ Returned
    /\ Len(agent_results) = Len(Agents)
    /\ NoSuccess(agent_results)

\* C5. Zero quorum: with no successful result the verdict has confidence
\* 0, the sentinel recommendation and a non-empty descriptive reason.
C5_ZeroQuorumReason ==
    (final_verdict.present /\ NoSuccess(agent_results)) =>
        /\ final_verdict.confidence = 0
        /\ final_verdict.recommendation \in {"HOLD", "INCONCLUSIVE"}
        /\ final_verdict.reasons # <<>>

\* The fixed order of the decisions, most optimistic first
OptimismRank(d) ==
    CASE d = "STRONG_INVEST" -> 5
      [] d = "INVEST" -> 4
      [] d = "CONSIDER" -> 3
      [] d = "RISKY" -> 2
      [] d = "PASS" -> 1
      [] OTHER -> 0

\* The decisions that share the highest count of a vote summary
TopTied(summary) ==
    {d \in DOMAIN summary : \A e \in DOMAIN summary : summary[e] <= summary[d]}

\* C9. Tie-break: when decisions of the fixed order are tied for the
\* highest count, the committee decision is the most optimistic of them.
C9_TieBreakOptimistic ==
    committee_verdict.present =>
        LET tied == {d \in TopTied(committee_verdict.vote_summary) : OptimismRank(d) > 0}
        IN  (Cardinality(tied) >= 2 /\ tied = TopTied(committee_verdict.vote_summary)) =>
                \A d \in tied : OptimismRank(committee_verdict.decision) >= OptimismRank(d)

\* The orders in which n results can be supplied
Perms(n) == {p \in [1..n -> 1..n] : \A i, j \in 1..n : p[i] = p[j] => i = j}

Permute(s, p) == [i \in 1..Len(s) |-> s[p[i]]]

\* C10. Order independence: the decision, the vote summary and the verdict
\* are the same for the agent results supplied in any other order.
C10_OrderIndependent ==
    committee_verdict.present =>
        \A p \in Perms(Len(agent_results)) :
            LET other == Permute(agent_results, p)
                d == RunCommitteeDeliberation(other)
                v == GenerateVerdict(other)
                w == GenerateVerdict(agent_results)
            IN  /\ d.decision = committee_verdict.decision
                /\ d.vote_summary = committee_verdict.vote_summary
                /\ v.verdict = w.verdict
                /\ v.confidence = w.confidence

----------------------------------------------------------------------------
(* Claims about evaluate_pitch / run_analysis (SpecSession)                *)

\* C3. Session lifecycle: once the background task run_analysis of an
\* analysis has run, its stored status is 'completed' or 'error'.
C3_StatusLeavesProcessing ==
    \A id \in DOMAIN analysis_results :
        bg[id] = "finished" => analysis_results[id] \in {"completed", "error"}

NonDecreasing(s) == \A i, j \in DOMAIN s : i <= j => s[i] <= s[j]

\* C7. Progress monotonicity: the percentages produced for an analysis are
\* in 0..100, never decrease, and the last one, once run_analysis has run,
\* is 100.
C7_ProgressEndsAt100 ==
    \A id \in DOMAIN analysis_results :
        /\ \A i \in DOMAIN emitted[id] : emitted[id][i] \in 0..100
        /\ NonDecreasing(emitted[id])
        /\ bg[id] = "finished" =>
               /\ emitted[id] # << >>
               /\ emitted[id][Len(emitted[id])] = 100

----------------------------------------------------------------------------
(* Claims about ConnectionManager (SpecWS)                                 *)

\* C6. Non-blocking publish: send_progress_update does not wait on a
\* subscriber: when no send of its gather can still end, the call can
\* return, also when one of the sends never completes.
C6_PublisherNeverWaits ==
    (pub_pc = "gather" /\ \A w \in send_tasks : send_state[w] # "pending")
        => ENABLED PublishReturn

----------------------------------------------------------------------------
(* Claims about the consensus figures                                      *)

\* C11. Consensus score: the consensus the verdict of analyze_pitch reports
\* is the share of the counted votes that went to the majority decision,
\* and it is 1 exactly when all counted votes agree.
C11_ConsensusIsMajorityShare ==
    (final_verdict.present /\ committee_verdict.votes # <<>>) =>
        LET v == GenerateVerdict(agent_results)
            votes == committee_verdict.votes
            maj == CountOf(votes, committee_verdict.decision)
        IN  /\ v.consensus = (100 * maj) \div Len(votes)
            /\ v.consensus = 100 <=>
                   \A i, j \in DOMAIN votes : votes[i].vote = votes[j].vote

\* C12. Dissent list: the response of simulate_investment_committee lists
\* in dissenting_opinions exactly the members whose vote is neither the
\* majority vote nor Abstain, in member order, at most five.
C12_DissentReported ==
    sim_pc = "done" =>
        LET majority == MajorityVote(committee_members)
            listed == IF sim_ret.status = "ok" THEN sim_ret.dissenting_opinions ELSE <<>>
        IN  /\ \A i \in DOMAIN committee_members :
                   (committee_members[i].vote \notin {majority, "Abstain"}) <=>
                       \E k \in DOMAIN listed :
                           /\ listed[k].name = committee_members[i].name
                           /\ listed[k].vote = committee_members[i].vote
            /\ \A k, l \in DOMAIN listed :
                   k < l => \E i, j \in DOMAIN committee_members :
                                /\ i < j
                                /\ committee_members[i].name = listed[k].name
                                /\ committee_members[j].name = listed[l].name
            /\ Len(listed) <= 5

----------------------------------------------------------------------------
(* Claims about _generate_verdict on given agent results (SpecVerdict)     *)

\* The results that count towards the average: successful, and their
\* confidence missing (read as 0.0) or a number
Counted(results) ==
    {i \in DOMAIN results :
        /\ results[i].success
        /\ "confidence" \in DOMAIN results[i] => results[i].confidence.num}

ReportedConfidence(r) == IF "confidence" \in DOMAIN r THEN r.confidence.val ELSE 0

RECURSIVE SumReported(_, _)
SumReported(results, S) ==
    IF S = {} THEN 0
    ELSE LET i == CHOOSE x \in S : TRUE
         IN  ReportedConfidence(results[i]) + SumReported(results, S \ {i})

C14_ConfidenceLabel ==
    gv_pc = "done" =>
        LET S == Counted(gv_results)
            n == Cardinality(S)
            total == SumReported(gv_results, S)
            label == gv_final.confidence_label
        IN  /\ gv_final.present
            /\ gv_final.confidence = gv_verdict.confidence
            /\ label \in {"HIGH", "MEDIUM", "LOW"}
            /\ label = "HIGH" <=> gv_final.confidence >= 70
            /\ label = "MEDIUM" <=> (gv_final.confidence >= 40 /\ gv_final.confidence < 70)
            /\ n > 0 => /\ label = "HIGH" <=> total >= 70 * n
                        /\ label = "LOW" <=> total < 40 * n
            /\ n = 0 => label = "LOW"

\* A verdict whose confidence is exactly 0.7 is labelled HIGH, built from
\* results of which one failed.
C14_Witness ==
    /\ gv_pc = "done"
    /\ gv_final.confidence = 70
    /\ gv_final.confidence_label = "HIGH"
    /\ \E i \in DOMAIN gv_results : ~gv_results[i].success

\* The results with the confidence of entry i replaced by x
WithConfidence(results, i, x) ==
    [results EXCEPT ![i] = [results[i] EXCEPT !.confidence = Num(x)]]

\* The successful entries that report a number
Reporting(results) ==
    {i \in DOMAIN results :
        /\ results[i].success
        /\ "confidence" \in DOMAIN results[i]
        /\ results[i].confidence.num}

\* C15. Weighting monotonicity: with every other result unchanged, raising
\* the confidence one successful agent reports never lowers the verdict's
\* confidence.
C15_ConfidenceMonotone ==
    gv_pc = "done" =>
        \A i \in Reporting(gv_results) :
            \A x \in ConfidenceSamples :
                x >= gv_results[i].confidence.val =>
                    GenerateVerdict(WithConfidence(gv_results, i, x)).confidence
                        >= gv_verdict.confidence

\* A successful agent reports 40 next to another successful agent, and
\* raising its confidence to 100 raises the verdict's confidence.
C15_Witness ==
    /\ gv_pc = "done"
    /\ \E i \in Reporting(gv_results) :
           /\ gv_results[i].confidence.val = 40
           /\ Reporting(gv_results) \ {i} # {}
           /\ GenerateVerdict(WithConfidence(gv_results, i, 100)).confidence
                  > gv_verdict.confidence

----------------------------------------------------------------------------
(* Claims about the agents (SpecAgent)                                     *)

\* analyze got as far as calling call_llm
LLMInvoked ==
    ~(ag_agent = "FinanceExpert" /\ ag_file \in {"pdf_empty", "pdf_unreadable"})

C17_ConfidenceInRange ==
    ag_pc = "done" => (0 <= ag_resp.confidence /\ ag_resp.confidence <= 100)

\* C18. Confidence default: when the LLM output parses to an object whose
\* confidence is missing or not numeric, the agent result's confidence is
\* 0.5, for each analyst.
C18_ConfidenceDefault ==
    (/\ ag_pc = "done"
     /\ LLMInvoked
     /\ ag_llm.kind = "object"
     /\ ag_llm.nested = "ok"
     /\ (~ag_llm.conf.given \/ ~ag_llm.conf.c.num))
        => ag_resp.confidence = 50

\* C19. Hard failure forces confidence 0: when call_llm raises, or
\* FinanceExpert cannot read or finds empty its PDF, the result has
\* success=false, confidence 0 and a non-empty error.
C19_HardFailureZero ==
    (/\ ag_pc = "done"
     /\ \/ ~LLMInvoked
        \/ ag_llm.kind \in {"raise_http", "raise_other"})
        => /\ ~ag_resp.success
           /\ ag_resp.confidence = 0
           /\ ~ag_resp.error.none
           /\ ~ag_resp.error.empty

----------------------------------------------------------------------------
(* Claims about call_llm (SpecLLM)                                         *)

\* The wait of a call made at time t in a process where no other analysis
\* has called call_llm: last_call_time still has its initial value
AloneWait(t) == WaitTime(t, 0)

\* C20. Session independence: the LLM-call schedule of an analysis is the
\* one it has when it runs alone: the wait call_llm imposes on its call is
\* the wait it would compute had no other analysis called.
C20_ScheduleIndependent ==
    \A s \in Analyses :
        llm_pc[s] # "idle" => llm_wait[s] = AloneWait(llm_call_time[s])

----------------------------------------------------------------------------
(* Claims about the shape of the final verdict (SpecVerdict)               *)

\* The fields of the verdict committee_coordinator_new returns when every
\* agent succeeded
AllSucceeded ==
    [i \in DOMAIN Agents |-> GivenResult(Agents[i], TRUE, [given |-> FALSE, c |-> NotNum])]

\* C21. Stable output shape: the final verdict analyze_pitch returns has
\* the same set of fields whether zero, some or all agents succeeded, both
\* the final_verdict dict of committee_coordinator.py and the dict
\* _generate_verdict of committee_coordinator_new.py returns.
C21_StableShape ==
    /\ gv_final.present =>
          DOMAIN gv_final = DOMAIN BuildFinalVerdict(GenerateVerdict(AllSucceeded))
    /\ "verdict" \in DOMAIN gv_new =>
          DOMAIN gv_new = DOMAIN NewGenerateVerdict(AllSucceeded)

----------------------------------------------------------------------------
(* Claims about extract_analysis_from_text (SpecExtract)                   *)

\* C22. Heuristic fallback: for every text (the empty one and those without
\* keyword included) and every role the function returns without raising,
\* the vote is INVEST, PASS or CONSIDER, and the confidence is at most 60.0
\* on the function's 0-100 scale.
C22_HeuristicFallback ==
    ex_pc = "done" =>
        /\ ~ex_ret.raised
        /\ ex_ret.vote \in {"INVEST", "PASS", "CONSIDER"}
        /\ ex_ret.confidence <= 600

----------------------------------------------------------------------------
(* Claims about the committee simulation's vote count and member list      *)
(* (SpecSim)                                                               *)

\* C23. No counted vote: when no member's vote is one of the five
\* decisions, the response of simulate_investment_committee reports
\* majority_vote 'Abstain' and consensus_score 0.
C23_AbstainSentinel ==
    (sim_pc = "done" /\ sim_ret.status = "ok"
        /\ TotalVotingMembers(committee_members) = 0) =>
        /\ sim_ret.majority_vote = "Abstain"
        /\ sim_ret.consensus_score = 0

\* C24. One entry per role: when the loop over committee_tasks has ended,
\* committee_members holds exactly one entry for each of the five roles, in
\* role order, whatever each member's task returned.
C24_OneEntryPerRole ==
    sim_pc = "done" =>
        /\ Len(committee_members) = Len(Roles)
        /\ \A i \in DOMAIN committee_members : committee_members[i].name = Roles[i]

----------------------------------------------------------------------------
(* Claims about the rate limiter under concurrent calls (SpecLLM)          *)

Invoked(s) == llm_pc[s] \in {"invoking", "done"}

\* C25. Rate limit under concurrency: the starts of any two Gemini
\* invocations made through call_llm are at least RATE_LIMIT_DELAY seconds
\* apart, also when the calls overlap.
C25_MinimumSpacing ==
    \A s, t \in Analyses :
        (s # t /\ Invoked(s) /\ Invoked(t)) =>
            \/ llm_invoke_time[s] - llm_invoke_time[t] >= RATE_LIMIT_DELAY
            \/ llm_invoke_time[t] - llm_invoke_time[s] >= RATE_LIMIT_DELAY

----------------------------------------------------------------------------
(* Claims about run_next_round (SpecDebate, SpecDebateOverlap)             *)

\* The messages stored in a session document
AllMessages(db) ==
    UNION {{db.agents[i][k] : k \in DOMAIN db.agents[i]} : i \in DOMAIN db.agents}

TotalMessages(db) == SumSeq([i \in DOMAIN db.agents |-> Len(db.agents[i])])

\* The 0-based round of a stored message: how many stored messages are older
RoundOf(db, m) == Cardinality({x \in AllMessages(db) : x.created_at < m.created_at})

\* C26. Debate round-robin: with run_next_round called one call at a time,
\* rounds equals the number of stored messages, the k-th stored round was
\* spoken by agent k mod n, the agents' message counts differ by at most
\* one, and a call whose LLM invocation raised left the stored session as
\* it had loaded it.
C26_RoundRobin ==
    LET n == Len(d_db.agents)
    IN  /\ d_db.rounds = TotalMessages(d_db)
        /\ \A i \in DOMAIN d_db.agents : \A k \in DOMAIN d_db.agents[i] :
               /\ d_db.agents[i][k].agent_name = i
               /\ RoundOf(d_db, d_db.agents[i][k]) % n = i - 1
        /\ \A i, j \in DOMAIN d_db.agents :
               Len(d_db.agents[i]) - Len(d_db.agents[j]) <= 1
        /\ d_pc["c1"] = "raised" => d_db = d_session["c1"]

\* Two agents, three stored rounds, and a fourth call whose LLM raised
C26_Witness ==
    /\ Len(d_db.agents) = 2
    /\ d_db.rounds = 3
    /\ d_pc["c1"] = "raised"

\* The message a call appended to its copy of the session
OwnMessage(c) ==
    LET msgs == d_session[c].agents[d_idx[c] + 1] IN msgs[Len(msgs)]

\* C27. No lost update: when two run_next_round calls that loaded the same
\* stored session have both saved and returned, rounds has grown by 2, both
\* replies are stored, and the two speakers are consecutive in the rotation.
C27_NoLostUpdate ==
    \A c, e \in Callers :
        (c # e /\ d_pc[c] = "returned" /\ d_pc[e] = "returned"
            /\ d_session[c].rounds = d_session[e].rounds) =>
            /\ d_db.rounds = d_session[c].rounds + 1
            /\ OwnMessage(c) \in AllMessages(d_db)
            /\ OwnMessage(e) \in AllMessages(d_db)
            /\ \/ d_idx[e] = (d_idx[c] + 1) % Len(d_db.agents)
               \/ d_idx[c] = (d_idx[e] + 1) % Len(d_db.agents)

----------------------------------------------------------------------------
(* Claims about AnalysisService (SpecAnalysis)                             *)

\* C28. Record status: once _perform_analysis of a record has finished, the
\* record's top-level status is no longer 'processing': it is 'completed'
\* when the pipeline ran through, with or without a website_url, and a
\* failure status when the pipeline raised.
C28_RecordStatusSettled ==
    \A id \in RecordIds :
        /\ as_pc[id] \in {"finished_ok", "finished_error"} =>
               as_db[id].status # "processing"
        /\ as_pc[id] = "finished_ok" => as_db[id].status = "completed"
        /\ as_pc[id] = "finished_error" => as_db[id].status \in {"failed", "error"}

----------------------------------------------------------------------------
(* Claims about eviction and the registry of ConnectionManager (SpecWS)    *)

\* C29. Dead subscriber eviction: when send_progress_update returns, every
\* websocket whose send failed in it is no longer registered for the
\* analysis or has a deferred disconnect pending.
C29_FailedSendEvicts ==
    [][PublishReturn =>
          \A w \in Sockets :
              send_state[w] = "failed" =>
                  \/ <<pub_id, w>> \in pending_disc'
                  \/ pub_id \notin DOMAIN active_connections'
                  \/ w \notin active_connections'[pub_id]]_vars

\* The websockets connected to an analysis and not disconnected
Subscribed(id) == {w \in Sockets : ws_state[w] = "connected" /\ ws_analysis[w] = id}

\* C30. Registry invariant: no key of active_connections maps to an empty
\* set; _disconnect for a websocket that is not registered changes nothing
\* and _disconnect never changes another analysis' set; and once every
\* deferred _disconnect has run, an analysis_id is a key exactly when a
\* websocket connected to it has not been disconnected, its set being those
\* websockets.
C30_RegistryInvariant ==
    /\ \A id \in DOMAIN active_connections : active_connections[id] # {}
    /\ \A id \in Channels : \A w \in Sockets :
           LET after == DisconnectBody(active_connections, id, w)
           IN  /\ (id \notin DOMAIN active_connections \/ w \notin active_connections[id]) =>
                      after = active_connections
               /\ \A other \in DOMAIN active_connections \ {id} :
                      other \in DOMAIN after /\ after[other] = active_connections[other]
    /\ pending_disc = {} =>
           /\ \A id \in Channels :
                  id \in DOMAIN active_connections <=> Subscribed(id) # {}
           /\ \A id \in DOMAIN active_connections :
                  active_connections[id] = Subscribed(id)

\* The deferred disconnects have run: one analysis lost its last websocket
\* and its key, another still has a websocket and another one left it
C30_Witness ==
    /\ pending_disc = {}
    /\ \E w, v, u \in Sockets :
           /\ ws_state[w] = "closed" /\ ws_analysis[w] \notin DOMAIN active_connections
           /\ ws_state[v] = "connected" /\ ws_analysis[v] \in DOMAIN active_connections
           /\ ws_state[u] = "closed" /\ ws_analysis[u] = ws_analysis[v]

====
